---- MODULE Spec2Model ----
(***************************************************************************)
(* A model of Helper.js (GameJS): the InputHandler key maps with their     *)
(* keydown/keyup listeners and the isDown/isPressed queries, the           *)
(* FPSCounter, and the Animate frame loop.                                 *)
(*                                                                         *)
(* JavaScript values are modelled as strings, so that a property lookup    *)
(* that misses is the value "undefined" and not the boolean false.         *)
(***************************************************************************)
EXTENDS Integers, Sequences, FiniteSets, TLC

\* ---------------------------------------------------------------- bounds
\* key-down events delivered for one key since its last key-up
MaxDowns == 2
\* isPressed(k) calls since the last key event for k
MaxPolls == 3
\* key-up events delivered for one key
MaxUps == 2
\* update() calls of the FPSCounter
MaxFrames == 4
\* the clock stops advancing at this many milliseconds
MaxTime == 2500
\* callback invocations of the Animate loop
MaxTicks == 4
\* rectangle corners lie in 0..MaxPos
MaxPos == 2
\* rectangle widths and heights lie in -1..MaxSize
MaxSize == 2
\* sprite source coordinates and draw destinations lie in 0..MaxCoord
MaxCoord == 1

\* ------------------------------------------------------- program constants
KEY_LEFT == 37
KEY_SPACE == 32
\* the key codes the model delivers events for and polls
Keys == {KEY_LEFT, KEY_SPACE}

\* the length of one FPS window in milliseconds
Window == 1000

\* amounts by which the host clock advances between two operations
ClockSteps == {499, 500}
\* Date.now() is read twice in update(); the clock may move between the reads
Drift == {0, 1}

JSTrue == "true"
JSFalse == "false"
JSUndefined == "undefined"

VARIABLES
    down,        \* InputHandler.down: an object, modelled as a function on the keys present
    pressed,     \* InputHandler.pressed
    op,          \* the operation performed last: [name, code, ret]
    evt,         \* history: the most recent key event of each key ("none", "down", "up")
    downs,       \* history: key-down events of each key since its last key-up
    polls,       \* history: isPressed(k) calls since the last key event of k
    ups,         \* history: key-up events of each key
    trues,       \* history: isPressed(k) calls that returned true
    truesAtUp,   \* history: the value of trues[k] at the most recent key-up of k
    everDown,    \* history: whether a key-down event was ever delivered for k
    current,     \* FPSCounter.current
    last,        \* FPSCounter.last
    lastUpdated, \* FPSCounter.lastUpdated
    now,         \* the host clock, Date.now()
    fillText,    \* the number drawn by the last FPSCounter.draw, <<>> if none
    prior,       \* history: current at the start of the most recent update() that closed a window
    closings,    \* history: number of update() calls that closed a window
    updates,     \* history: number of update() calls
    closing,     \* history: whether the most recent update() call closed a window
    pc,          \* Animate: position of the driver
    counter,     \* the counter the frame callback increments
    pendingFrames, \* frame requests registered with the host and not yet delivered
    active,      \* invocations of the frame callback that have begun and not returned
    ticksDone,   \* history: invocations of run() that have returned
    rectA,       \* AABBIntersect: the first argument
    rectB,       \* AABBIntersect: the second argument
    sprite,      \* the Sprite object built by the constructor
    drawImage,   \* the arguments of the last ctx.drawImage call, <<>> if none
    dest,        \* the destination <<x, y>> given to the last draw call, <<>> if none
    burstKey,    \* history: the key of the key events delivered last
    burstLen,    \* history: how much of down, up, down for burstKey was delivered back to back
    burstStart,  \* history: <<down, pressed>> before the first event of that sequence
    afterFirst,  \* history: <<down, pressed>> after the first event of that sequence
    polledInHold, \* history: whether isPressed(k) was called since k went down
    lostTap,     \* history: whether the last key-up of k ended a hold during which isPressed(k) was never called
    truesAtDown  \* history: the value of trues[k] when k last went down

inputVars == <<down, pressed, evt, downs, polls, ups, trues, truesAtUp, everDown>>
fpsVars == <<current, last, lastUpdated, now, fillText, prior, closings, updates, closing>>
animVars == <<pc, counter, pendingFrames, active, ticksDone>>
geomVars == <<rectA, rectB>>
spriteVars == <<sprite, drawImage, dest>>
tapVars == <<burstKey, burstLen, burstStart, afterFirst, polledInHold, lostTap, truesAtDown>>
restVars == <<geomVars, spriteVars, tapVars>>
vars == <<down, pressed, op, evt, downs, polls, ups, trues, truesAtUp, everDown,
          current, last, lastUpdated, now, fillText, prior, closings, updates, closing,
          pc, counter, pendingFrames, active, ticksDone,
          rectA, rectB, sprite, drawImage, dest,
          burstKey, burstLen, burstStart, afterFirst, polledInHold, lostTap, truesAtDown>>

\* ------------------------------------------------------------ JS objects
\* obj[code]: the stored value, or undefined when the property is absent
Get(obj, code) == IF code \in DOMAIN obj THEN obj[code] ELSE JSUndefined

\* obj[code] = value
Put(obj, code, value) == [c \in (DOMAIN obj) \cup {code} |-> IF c = code THEN value ELSE obj[c]]

\* delete obj[code]: removes the property if present
Delete(obj, code) == [c \in (DOMAIN obj) \ {code} |-> obj[c]]

\* the truthiness test of an if (...)
Truthy(v) == v = JSTrue

EmptyObject == [c \in {} |-> JSTrue]

\* ---------------------------------------------------------- InputHandler
\* the keydown listener: the maps after the event
KeyDownListenerRearms(code) == [down |-> Put(down, code, JSTrue), pressed |-> Delete(pressed, code)]

KeyDownListener(code) == [down |-> Put(down, code, JSTrue), pressed |-> pressed]

\* the keyup listener: the maps after the event
KeyUpListenerKeepsPressed(code) == [down |-> Delete(down, code), pressed |-> pressed]

KeyUpListenerKeepsDown(code) == [down |-> down, pressed |-> Delete(pressed, code)]

KeyUpListenerClearsAll(code) == [down |-> Delete(down, code), pressed |-> EmptyObject]

KeyUpListener(code) == [down |-> Delete(down, code), pressed |-> Delete(pressed, code)]

\* isDown(code): the value returned
isDown(code) == Get(down, code)

\* isPressed(code): the value returned and the pressed map after the call
isPressedNoMark(code) ==
    IF Truthy(Get(pressed, code)) THEN [ret |-> JSFalse, pressed |-> pressed]
    ELSE IF Truthy(Get(down, code)) THEN [ret |-> JSTrue, pressed |-> pressed]
    ELSE [ret |-> JSFalse, pressed |-> pressed]

isPressedMarksUnheld(code) ==
    IF Truthy(Get(pressed, code)) THEN [ret |-> JSFalse, pressed |-> pressed]
    ELSE [ret |-> IF Truthy(Get(down, code)) THEN JSTrue ELSE JSFalse,
          pressed |-> Put(pressed, code, JSTrue)]

isPressedLevel(code) ==
    IF Truthy(Get(down, code))
    THEN [ret |-> JSTrue, pressed |-> Put(pressed, code, JSTrue)]
    ELSE [ret |-> JSFalse, pressed |-> pressed]

isPressed(code) ==
    IF Truthy(Get(pressed, code)) THEN [ret |-> JSFalse, pressed |-> pressed]
    ELSE IF Truthy(Get(down, code))
         THEN LET marked == Put(pressed, code, JSTrue)
              IN  [ret |-> Get(marked, code), pressed |-> marked]
         ELSE [ret |-> JSFalse, pressed |-> pressed]

\* a keydown event with keyCode k is delivered
KeyDown(k) ==
    /\ downs[k] < MaxDowns
    /\ LET r == KeyDownListener(k)
       IN  /\ down' = r.down
           /\ pressed' = r.pressed
    /\ op' = [name |-> "keydown", code |-> k, ret |-> JSUndefined]
    /\ evt' = [evt EXCEPT ![k] = "down"]
    /\ downs' = [downs EXCEPT ![k] = @ + 1]
    /\ polls' = [polls EXCEPT ![k] = 0]
    /\ everDown' = [everDown EXCEPT ![k] = TRUE]
    /\ UNCHANGED <<ups, trues, truesAtUp>>

\* a keyup event with keyCode k is delivered
KeyUp(k) ==
    /\ ups[k] < MaxUps
    /\ LET r == KeyUpListener(k)
       IN  /\ down' = r.down
           /\ pressed' = r.pressed
    /\ op' = [name |-> "keyup", code |-> k, ret |-> JSUndefined]
    /\ evt' = [evt EXCEPT ![k] = "up"]
    /\ downs' = [downs EXCEPT ![k] = 0]
    /\ polls' = [polls EXCEPT ![k] = 0]
    /\ ups' = [ups EXCEPT ![k] = @ + 1]
    /\ truesAtUp' = [truesAtUp EXCEPT ![k] = trues[k]]
    /\ UNCHANGED <<trues, everDown>>

\* the game calls isDown(k)
CallIsDown(k) ==
    /\ op' = [name |-> "isDown", code |-> k, ret |-> isDown(k)]
    /\ UNCHANGED inputVars

\* the game calls isPressed(k)
CallIsPressed(k) ==
    /\ polls[k] < MaxPolls
    /\ LET r == isPressed(k)
       IN  /\ pressed' = r.pressed
           /\ op' = [name |-> "isPressed", code |-> k, ret |-> r.ret]
           /\ trues' = [trues EXCEPT ![k] = IF r.ret = JSTrue THEN @ + 1 ELSE @]
    /\ polls' = [polls EXCEPT ![k] = @ + 1]
    /\ UNCHANGED <<down, evt, downs, ups, truesAtUp, everDown>>

\* the state after new InputHandler()
InitInput ==
    /\ down = EmptyObject
    /\ pressed = EmptyObject
    /\ evt = [k \in Keys |-> "none"]
    /\ downs = [k \in Keys |-> 0]
    /\ polls = [k \in Keys |-> 0]
    /\ ups = [k \in Keys |-> 0]
    /\ trues = [k \in Keys |-> 0]
    /\ truesAtUp = [k \in Keys |-> 0]
    /\ everDown = [k \in Keys |-> FALSE]

\* the state after new FPSCounter(ctx), constructed at clock value 0
InitFPS ==
    /\ current = 0
    /\ last = 0
    /\ now = 0
    /\ lastUpdated = now
    /\ fillText = <<>>
    /\ prior = 0
    /\ closings = 0
    /\ updates = 0
    /\ closing = FALSE

\* the state before Animate(loop, canvas) is called
InitAnim ==
    /\ pc = "init"
    /\ counter = 0
    /\ pendingFrames = 0
    /\ active = 0
    /\ ticksDone = 0

\* no rectangles are being tested
InitGeom ==
    /\ rectA = [x |-> 0, y |-> 0, w |-> 0, h |-> 0]
    /\ rectB = [x |-> 0, y |-> 0, w |-> 0, h |-> 0]

\* no sprite has been built and nothing has been drawn
InitSprite ==
    /\ sprite = EmptyObject
    /\ drawImage = <<>>
    /\ dest = <<>>

\* no key event has been delivered
InitTaps ==
    /\ burstKey = 0
    /\ burstLen = 0
    /\ burstStart = <<EmptyObject, EmptyObject>>
    /\ afterFirst = <<EmptyObject, EmptyObject>>
    /\ polledInHold = [k \in Keys |-> FALSE]
    /\ lostTap = [k \in Keys |-> FALSE]
    /\ truesAtDown = [k \in Keys |-> 0]

InitOp == op = [name |-> "new", code |-> 0, ret |-> JSUndefined]

Init ==
    /\ InitInput
    /\ InitFPS
    /\ InitAnim
    /\ op = [name |-> "new", code |-> 0, ret |-> JSUndefined]
    /\ InitGeom
    /\ InitSprite
    /\ InitTaps

\* key events and queries of the InputHandler in any interleaving
Next ==
    \/ \E k \in Keys : KeyDown(k) /\ UNCHANGED <<fpsVars, animVars, restVars>>
    \/ \E k \in Keys : KeyUp(k) /\ UNCHANGED <<fpsVars, animVars, restVars>>
    \/ \E k \in Keys : CallIsDown(k) /\ UNCHANGED <<fpsVars, animVars, restVars>>
    \/ \E k \in Keys : CallIsPressed(k) /\ UNCHANGED <<fpsVars, animVars, restVars>>

Spec == Init /\ [][Next]_vars

\* ------------------------------------------------------------ FPSCounter
\* update(): the fields after the call; t1 is what Date.now() returns in the
\* comparison and t2 what it returns in the assignment to lastUpdated
updateCountsAfter(t1, t2) ==
    IF t1 - lastUpdated >= Window
    THEN [current |-> 0, last |-> current, lastUpdated |-> t2]
    ELSE [current |-> current + 1, last |-> last, lastUpdated |-> lastUpdated]

updateStrict(t1, t2) ==
    LET incremented == current + 1
    IN  IF t1 - lastUpdated > Window
        THEN [current |-> 0, last |-> incremented, lastUpdated |-> t2]
        ELSE [current |-> incremented, last |-> last, lastUpdated |-> lastUpdated]

update(t1, t2) ==
    LET incremented == current + 1
    IN  IF t1 - lastUpdated >= Window
        THEN [current |-> 0, last |-> incremented, lastUpdated |-> t2]
        ELSE [current |-> incremented, last |-> last, lastUpdated |-> lastUpdated]

\* draw(): the number in the text handed to ctx.fillText
draw == last

\* the game calls fps.update(); the clock may advance between the two reads
CallUpdate ==
    /\ updates < MaxFrames
    /\ \E d \in Drift :
        LET closes == (now - lastUpdated >= Window)
            t2 == IF closes THEN now + d ELSE now
            r == update(now, t2)
        IN  /\ current' = r.current
            /\ last' = r.last
            /\ lastUpdated' = r.lastUpdated
            /\ now' = t2
            /\ closing' = closes
            /\ closings' = IF closes THEN closings + 1 ELSE closings
            /\ prior' = IF closes THEN current ELSE prior
    /\ updates' = updates + 1
    /\ op' = [name |-> "update", code |-> 0, ret |-> JSUndefined]
    /\ UNCHANGED fillText

\* the game calls fps.draw()
CallDraw ==
    /\ fillText' = <<draw>>
    /\ op' = [name |-> "draw", code |-> 0, ret |-> JSUndefined]
    /\ UNCHANGED <<current, last, lastUpdated, now, prior, closings, updates, closing>>

\* time passes between two calls
ClockAdvance ==
    /\ \E d \in ClockSteps :
        /\ now + d <= MaxTime
        /\ now' = now + d
    /\ op' = [name |-> "clock", code |-> 0, ret |-> JSUndefined]
    /\ UNCHANGED <<current, last, lastUpdated, fillText, prior, closings, updates, closing>>

NextFPS ==
    \/ CallUpdate /\ UNCHANGED <<inputVars, animVars, restVars>>
    \/ CallDraw /\ UNCHANGED <<inputVars, animVars, restVars>>
    \/ ClockAdvance /\ UNCHANGED <<inputVars, animVars, restVars>>

SpecFPS == Init /\ [][NextFPS]_vars

\* --------------------------------------------------------------- Animate
\* the host runs a task (a frame notification, a key event listener) only when
\* no JavaScript is executing
StackEmpty == pc \in {"init", "wait"}

\* run() is entered and invokes loop()
RunBegin ==
    /\ active' = active + 1
    /\ pc' = "loop"

\* the frame callback of the claim: it increments its counter and returns
loopCallback ==
    /\ pc = "loop"
    /\ counter' = counter + 1
    /\ active' = active - 1
    /\ pc' = "raf"
    /\ op' = [name |-> "loop", code |-> 0, ret |-> JSUndefined]
    /\ UNCHANGED <<pendingFrames, ticksDone>>

\* after loop() has returned: raf(run, canvas), and run() returns
RunRafCallsRun ==
    /\ pc = "raf"
    /\ counter < MaxTicks
    /\ RunBegin
    /\ op' = [name |-> "raf", code |-> 0, ret |-> JSUndefined]
    /\ UNCHANGED <<counter, pendingFrames, ticksDone>>

RunRafNoRegister ==
    /\ pc = "raf"
    /\ ticksDone' = ticksDone + 1
    /\ pc' = "wait"
    /\ op' = [name |-> "raf", code |-> 0, ret |-> JSUndefined]
    /\ UNCHANGED <<counter, active, pendingFrames>>

RunRafTwice ==
    /\ pc = "raf"
    /\ pendingFrames' = pendingFrames + 2
    /\ ticksDone' = ticksDone + 1
    /\ pc' = "wait"
    /\ op' = [name |-> "raf", code |-> 0, ret |-> JSUndefined]
    /\ UNCHANGED <<counter, active>>

RunRaf ==
    /\ pc = "raf"
    /\ pendingFrames' = pendingFrames + 1
    /\ ticksDone' = ticksDone + 1
    /\ pc' = "wait"
    /\ op' = [name |-> "raf", code |-> 0, ret |-> JSUndefined]
    /\ UNCHANGED <<counter, active>>

\* Animate(loop, canvas): picks raf and calls run()
Animate ==
    /\ pc = "init"
    /\ RunBegin
    /\ op' = [name |-> "Animate", code |-> 0, ret |-> JSUndefined]
    /\ UNCHANGED <<counter, pendingFrames, ticksDone>>

\* the host delivers a requested frame notification: run() is called
FrameNotify ==
    /\ pc = "wait"
    /\ pendingFrames > 0
    /\ counter < MaxTicks
    /\ pendingFrames' = pendingFrames - 1
    /\ RunBegin
    /\ op' = [name |-> "frame", code |-> 0, ret |-> JSUndefined]
    /\ UNCHANGED <<counter, ticksDone>>

NextAnim ==
    \/ Animate /\ UNCHANGED <<inputVars, fpsVars, restVars>>
    \/ loopCallback /\ UNCHANGED <<inputVars, fpsVars, restVars>>
    \/ RunRaf /\ UNCHANGED <<inputVars, fpsVars, restVars>>
    \/ FrameNotify /\ UNCHANGED <<inputVars, fpsVars, restVars>>
    \/ \E k \in Keys : StackEmpty /\ KeyDown(k) /\ UNCHANGED <<fpsVars, animVars, restVars>>
    \/ \E k \in Keys : StackEmpty /\ KeyUp(k) /\ UNCHANGED <<fpsVars, animVars, restVars>>

SpecAnim == Init /\ [][NextAnim]_vars

\* a step of the running driver: the callback returns, run() registers the next
\* frame and returns, the host delivers the requested frame
TickStep ==
    (loopCallback \/ RunRaf \/ FrameNotify) /\ UNCHANGED <<inputVars, fpsVars, restVars>>

\* the driver under a fair host: every callback invocation returns and every
\* requested frame notification is delivered
SpecAnimFair == Init /\ [][NextAnim]_vars /\ WF_vars(TickStep)

\* --------------------------------------------------------- AABBIntersect
\* AABBIntersect(a, b)
AABBIntersectSwappedWidth(a, b) ==
    a.x < b.x + b.w /\ b.x < a.x + b.w /\ a.y < b.y + b.h /\ b.y < a.y + a.h

AABBIntersectInclusive(a, b) ==
    a.x <= b.x + b.w /\ b.x <= a.x + a.w /\ a.y <= b.y + b.h /\ b.y <= a.y + a.h

AABBIntersectHeightTypo(a, b) ==
    a.x < b.x + b.w /\ b.x < a.x + a.w /\ a.y < b.y + b.h /\ b.y < a.y + a.w

AABBIntersect(a, b) ==
    a.x < b.x + b.w /\ b.x < a.x + a.w /\ a.y < b.y + b.h /\ b.y < a.y + a.h

\* the rectangles of the two examples of the specification
ExampleA == [x |-> 0, y |-> 0, w |-> 10, h |-> 10]
ExampleTouching == [x |-> 10, y |-> 0, w |-> 10, h |-> 10]
ExampleOverlapping == [x |-> 5, y |-> 5, w |-> 10, h |-> 10]

\* the rectangles the function is applied to
Rects ==
    [x : 0..MaxPos, y : 0..MaxPos, w : -1..MaxSize, h : -1..MaxSize]
        \cup {ExampleA, ExampleTouching, ExampleOverlapping}

\* the game calls AABBIntersect(rectA, rectB)
CallAABBIntersect ==
    /\ op' = [name |-> "AABBIntersect", code |-> 0,
              ret |-> IF AABBIntersect(rectA, rectB) THEN JSTrue ELSE JSFalse]
    /\ UNCHANGED <<inputVars, fpsVars, animVars, restVars>>

InitAABB ==
    /\ InitInput
    /\ InitFPS
    /\ InitAnim
    /\ InitOp
    /\ rectA \in Rects
    /\ rectB \in Rects
    /\ InitSprite
    /\ InitTaps

NextAABB == CallAABBIntersect

SpecAABB == InitAABB /\ [][NextAABB]_vars

\* ---------------------------------------------------------------- Sprite
\* values handed to ctx.drawImage, tagged with their JavaScript type
Num(n) == <<"number", n>>
Undefined == <<"undefined", 0>>
Img == <<"image", 0>>

\* obj.name: the stored value, or undefined when the object has no such property
Prop(obj, name) == IF name \in DOMAIN obj THEN obj[name] ELSE Undefined

\* new Sprite(img, x, y, w, h): the object built
Sprite(img, x, y, w, h) ==
    [f \in {"img", "x", "y", "width", "height"} |->
        CASE f = "img" -> img
          [] f = "x" -> Num(x)
          [] f = "y" -> Num(y)
          [] f = "width" -> Num(w)
          [] f = "height" -> Num(h)]

\* Canvas.prototype.drawSprite(sprite, x, y): the arguments of its ctx.drawImage call
drawSprite(s, x, y) ==
    <<Prop(s, "img"), Prop(s, "x"), Prop(s, "y"), Prop(s, "w"), Prop(s, "h"),
      Num(x), Num(y), Prop(s, "w"), Prop(s, "h")>>

\* Sprite.prototype.draw(ctx, x, y) on the sprite this: the arguments of its ctx.drawImage call
SpriteDraw(this, x, y) ==
    <<Prop(this, "img"), Prop(this, "x"), Prop(this, "y"), Prop(this, "w"), Prop(this, "h"),
      Num(x), Num(y), Prop(this, "w"), Prop(this, "h")>>

\* the game builds a sprite
NewSprite ==
    /\ \E sx \in 0..MaxCoord, sy \in 0..MaxCoord, w \in 1..(MaxCoord + 1), h \in 1..(MaxCoord + 1) :
        sprite' = Sprite(Img, sx, sy, w, h)
    /\ op' = [name |-> "Sprite", code |-> 0, ret |-> JSUndefined]
    /\ UNCHANGED <<drawImage, dest>>

\* the game calls canvas.drawSprite(sprite, x, y)
CallDrawSprite ==
    /\ DOMAIN sprite # {}
    /\ \E x \in 0..MaxCoord, y \in 0..MaxCoord :
        /\ drawImage' = drawSprite(sprite, x, y)
        /\ dest' = <<x, y>>
    /\ op' = [name |-> "drawSprite", code |-> 0, ret |-> JSUndefined]
    /\ UNCHANGED sprite

\* the game calls sprite.draw(ctx, x, y)
CallSpriteDraw ==
    /\ DOMAIN sprite # {}
    /\ \E x \in 0..MaxCoord, y \in 0..MaxCoord :
        /\ drawImage' = SpriteDraw(sprite, x, y)
        /\ dest' = <<x, y>>
    /\ op' = [name |-> "draw", code |-> 0, ret |-> JSUndefined]
    /\ UNCHANGED sprite

NextSprite ==
    \/ NewSprite /\ UNCHANGED <<inputVars, fpsVars, animVars, geomVars, tapVars>>
    \/ CallDrawSprite /\ UNCHANGED <<inputVars, fpsVars, animVars, geomVars, tapVars>>
    \/ CallSpriteDraw /\ UNCHANGED <<inputVars, fpsVars, animVars, geomVars, tapVars>>

SpecSprite == Init /\ [][NextSprite]_vars

\* ------------------------------------------- key events with their history
NoMaps == <<EmptyObject, EmptyObject>>

\* a keydown event for k, recorded as the first or the third event of down, up, down
TapKeyDown(k) ==
    /\ KeyDown(k)
    /\ burstKey' = k
    /\ IF burstLen = 2 /\ burstKey = k
       THEN /\ burstLen' = 3
            /\ UNCHANGED <<burstStart, afterFirst>>
       ELSE /\ burstLen' = 1
            /\ burstStart' = <<down, pressed>>
            /\ afterFirst' = <<down', pressed'>>
    /\ polledInHold' = IF k \in DOMAIN down THEN polledInHold ELSE [polledInHold EXCEPT ![k] = FALSE]
    /\ truesAtDown' = IF k \in DOMAIN down THEN truesAtDown ELSE [truesAtDown EXCEPT ![k] = trues[k]]
    /\ lostTap' = [lostTap EXCEPT ![k] = FALSE]

\* a keyup event for k, recorded as the second event of down, up, down
TapKeyUp(k) ==
    /\ KeyUp(k)
    /\ IF burstLen = 1 /\ burstKey = k
       THEN /\ burstLen' = 2
            /\ UNCHANGED <<burstKey, burstStart, afterFirst>>
       ELSE /\ burstLen' = 0
            /\ burstKey' = 0
            /\ burstStart' = NoMaps
            /\ afterFirst' = NoMaps
    /\ lostTap' = IF k \in DOMAIN down THEN [lostTap EXCEPT ![k] = ~polledInHold[k]] ELSE lostTap
    /\ UNCHANGED <<polledInHold, truesAtDown>>

\* a frame polls isDown(k): the events before it and after it are not back to back
TapIsDown(k) ==
    /\ CallIsDown(k)
    /\ burstLen' = 0
    /\ burstKey' = 0
    /\ burstStart' = NoMaps
    /\ afterFirst' = NoMaps
    /\ UNCHANGED <<polledInHold, lostTap, truesAtDown>>

\* a frame polls isPressed(k)
TapIsPressed(k) ==
    /\ CallIsPressed(k)
    /\ burstLen' = 0
    /\ burstKey' = 0
    /\ burstStart' = NoMaps
    /\ afterFirst' = NoMaps
    /\ polledInHold' = [polledInHold EXCEPT ![k] = TRUE]
    /\ UNCHANGED <<lostTap, truesAtDown>>

NextTaps ==
    \/ \E k \in Keys : TapKeyDown(k) /\ UNCHANGED <<fpsVars, animVars, geomVars, spriteVars>>
    \/ \E k \in Keys : TapKeyUp(k) /\ UNCHANGED <<fpsVars, animVars, geomVars, spriteVars>>
    \/ \E k \in Keys : TapIsDown(k) /\ UNCHANGED <<fpsVars, animVars, geomVars, spriteVars>>
    \/ \E k \in Keys : TapIsPressed(k) /\ UNCHANGED <<fpsVars, animVars, geomVars, spriteVars>>

SpecTaps == Init /\ [][NextTaps]_vars

\* ------------------------------------------------------------------ claims

\* C1: edge trigger. After exactly one key-down event for k since k was last up
\* (or since construction), and with no key event for k since, the first
\* isPressed(k) call returns true, every later isPressed(k) call returns false,
\* and every isDown(k) call returns true.
C1_EdgeTrigger ==
    \A k \in Keys :
        (op.code = k /\ downs[k] = 1) =>
            /\ (op.name = "isPressed" /\ polls[k] = 1) => op.ret = JSTrue
            /\ (op.name = "isPressed" /\ polls[k] >= 2) => op.ret = JSFalse
            /\ op.name = "isDown" => op.ret = JSTrue

\* a second isPressed poll of a hold that began with one key-down has answered false
C1_Witness ==
    \E k \in Keys :
        /\ op = [name |-> "isPressed", code |-> k, ret |-> JSFalse]
        /\ downs[k] = 1
        /\ polls[k] >= 2
        /\ trues[k] >= 1

\* C2: re-arm. Once isPressed(k) has returned true, a key-up event for k followed
\* by a key-down event for k makes the next isPressed(k) call return true again.
C2_ReArm ==
    \A k \in Keys :
        ( /\ op.name = "isPressed"
          /\ op.code = k
          /\ truesAtUp[k] >= 1
          /\ ups[k] >= 1
          /\ downs[k] = 1
          /\ polls[k] = 1 ) =>
            /\ op.ret = JSTrue
            /\ trues[k] = truesAtUp[k] + 1

\* isPressed(k) answered true, k went up and down again, and isPressed(k) was polled
C2_Witness ==
    \E k \in Keys :
        /\ op.name = "isPressed"
        /\ op.code = k
        /\ truesAtUp[k] >= 1
        /\ downs[k] = 1
        /\ polls[k] = 1
        /\ trues[k] >= 2

\* C3: in every reachable state every key present in pressed is present in down.
C3_PressedSubsetDown == (DOMAIN pressed) \subseteq (DOMAIN down)

\* one key is in pressed (and down) while another is in down alone
C3_Witness ==
    /\ DOMAIN pressed # {}
    /\ (DOMAIN down) \ (DOMAIN pressed) # {}

\* C4: isPressed(code) returns true exactly when code is in down and not in
\* pressed before the call, and then it adds code to pressed and changes nothing
\* else; otherwise it returns false and changes nothing. isPressed never changes
\* down, and a key-down event never changes pressed.
C4_IsPressedEffect ==
    [][ /\ op'.name = "isPressed" =>
            /\ down' = down
            /\ IF op'.code \in DOMAIN down /\ op'.code \notin DOMAIN pressed
               THEN /\ op'.ret = JSTrue
                    /\ pressed' = Put(pressed, op'.code, JSTrue)
               ELSE /\ op'.ret = JSFalse
                    /\ pressed' = pressed
        /\ op'.name = "keydown" => pressed' = pressed ]_vars

\* an isPressed call has returned true and left its key marked while another key is held
C4_Witness ==
    /\ op.name = "isPressed"
    /\ op.ret = JSTrue
    /\ op.code \in DOMAIN pressed
    /\ DOMAIN down # {op.code}

\* C5: isDown(k) is true after a key-down event for k and is false after the
\* matching key-up event. (The statement of the claim; the code returns
\* undefined, not false, for a key that is not in down.)
C5_IsDownTracksLastEvent ==
    op.name = "isDown" =>
        /\ evt[op.code] = "down" => op.ret = JSTrue
        /\ (evt[op.code] = "up" /\ everDown[op.code]) => op.ret = JSFalse

\* C6: for a key that never had a key-down event, isDown(k) is false and
\* isPressed(k) is false. (The statement of the claim; isDown returns undefined.)
C6_UnpressedKey ==
    (op.name \in {"isDown", "isPressed"} /\ ~everDown[op.code]) => op.ret = JSFalse

\* C7: a key-up event for a key that is not in down leaves down and pressed
\* exactly as they were.
C7_KeyUpNoOp ==
    [][ (op'.name = "keyup" /\ op'.code \notin DOMAIN down) =>
            (down' = down /\ pressed' = pressed) ]_vars

\* a key-up was delivered for a key never pressed while another key was in pressed
C7_Witness ==
    /\ op.name = "keyup"
    /\ ~everDown[op.code]
    /\ DOMAIN pressed # {}

\* C8 as stated: while no window has closed, last is 0 and current is the number
\* of update() calls; the update() call that closes a window leaves in last the
\* count n accumulated before that call, and current reset.
C8_Original ==
    /\ closings = 0 => (last = 0 /\ current = updates)
    /\ closing => (last = prior /\ current = 0)

\* C8 as amended: while no window has closed, last is 0 and current is the number
\* of update() calls; the update() call that closes a window leaves last = n + 1,
\* the n calls accumulated before it plus the closing call itself, and
\* current = 0. For the first window n + 1 is the number of all update() calls.
C8_FrameWindow ==
    /\ closings = 0 => (last = 0 /\ current = updates)
    /\ closing => (last = prior + 1 /\ current = 0)
    /\ (closing /\ closings = 1) => last = updates

\* the first window has just been closed by an update() that followed two others
C8_Witness ==
    /\ op.name = "update"
    /\ closing
    /\ closings = 1
    /\ prior = 2

\* C9: an update() call made with at least 1000 ms elapsed since lastUpdated
\* copies the incremented current into last, resets current to 0 and
\* lastUpdated to the clock; a call made with less elapsed leaves last and
\* lastUpdated unchanged and increases current by exactly 1; no other
\* operation changes current, last or lastUpdated.
C9_UpdateEffect ==
    [][ /\ op'.name = "update" =>
            IF now - lastUpdated >= Window
            THEN /\ last' = current + 1
                 /\ current' = 0
                 /\ lastUpdated' = now'
                 /\ now' \in {now + d : d \in Drift}
            ELSE /\ last' = last
                 /\ lastUpdated' = lastUpdated
                 /\ current' = current + 1
        /\ op'.name # "update" => UNCHANGED <<current, last, lastUpdated>> ]_vars

\* a second window has been closed by an update() and its count has been drawn
C9_Witness ==
    /\ closing
    /\ closings = 2
    /\ last >= 2
    /\ fillText = <<last>>

\* C10: the counter of the frame callback equals the number of ticks the driver
\* has processed (plus one while a tick's callback has returned and the tick is
\* not finished), and at most one invocation of the callback is in progress,
\* also with key events delivered between ticks.
C10_TickCount ==
    /\ counter = ticksDone + (IF pc = "raf" THEN 1 ELSE 0)
    /\ active \in {0, 1}
    /\ active = 1 <=> pc = "loop"

\* three ticks are done, the fourth callback is running, and keys went down and up between ticks
C10_Witness ==
    /\ pc = "loop"
    /\ ticksDone = 3
    /\ counter = 3
    /\ \E k \in Keys : k \in DOMAIN down /\ ups[k] >= 1

\* C11: once Animate has been called, the callback has run before the driver
\* first waits, at most one frame request is pending, none is pending while a
\* tick executes (it is registered after the callback returned), and exactly
\* one is pending whenever no tick is executing.
C11_OnePendingFrame ==
    pc # "init" =>
        /\ pendingFrames \in {0, 1}
        /\ pc \in {"loop", "raf"} => pendingFrames = 0
        /\ pc = "wait" => (pendingFrames = 1 /\ counter >= 1)

\* Animate has returned after the synchronous first callback, with one request pending
C11_Witness ==
    /\ op.name = "raf"
    /\ pc = "wait"
    /\ ticksDone = 1
    /\ counter = 1
    /\ pendingFrames = 1

\* C12: AABBIntersect is symmetric: the result of AABBIntersect(a, b) is the
\* result of AABBIntersect(b, a), also for zero and negative sizes.
C12_Symmetric ==
    op.name = "AABBIntersect" => (op.ret = JSTrue <=> AABBIntersect(rectB, rectA))

\* two different rectangles that intersect have been tested
C12_Witness ==
    /\ op.name = "AABBIntersect"
    /\ op.ret = JSTrue
    /\ rectA # rectB
    /\ rectA.w # rectB.w
    /\ rectA.x # rectB.x

\* a rectangle has zero width or zero height
Degenerate(r) == r.w = 0 \/ r.h = 0

\* C13 as stated: a rectangle with zero width or zero height, in either
\* argument position, intersects nothing.
C13_Original ==
    (op.name = "AABBIntersect" /\ (Degenerate(rectA) \/ Degenerate(rectB))) => op.ret = JSFalse

\* r has zero extent on an axis and intersects s only if its coordinate on that
\* axis lies strictly between the two edges of s
StrictlyInside(r, s) ==
    /\ r.w = 0 => (s.x < r.x /\ r.x < s.x + s.w)
    /\ r.h = 0 => (s.y < r.y /\ r.y < s.y + s.h)

\* C13 as amended: a rectangle of zero width (height) intersects another
\* rectangle only if its x (y) coordinate lies strictly between the other's
\* left and right (top and bottom) edges; so it never intersects a rectangle
\* that is degenerate on the same axis.
C13_Degenerate ==
    op.name = "AABBIntersect" =>
        /\ op.ret = JSTrue => (StrictlyInside(rectA, rectB) /\ StrictlyInside(rectB, rectA))
        /\ (rectA.w = 0 /\ rectB.w = 0) => op.ret = JSFalse
        /\ (rectA.h = 0 /\ rectB.h = 0) => op.ret = JSFalse

\* a point strictly inside a rectangle has been found to intersect it
C13_Witness ==
    /\ op.name = "AABBIntersect"
    /\ op.ret = JSTrue
    /\ rectA.w = 0
    /\ rectA.h = 0
    /\ rectB.w > 0

\* twice the coordinates at which open intervals with integer ends can meet
HalfPoints == 0 .. (2 * (MaxPos + MaxSize) + 40)

\* the open intervals (l1, r1) and (l2, r2) have a point in common
OpenOverlap(l1, r1, l2, r2) ==
    \E p \in HalfPoints : 2 * l1 < p /\ p < 2 * r1 /\ 2 * l2 < p /\ p < 2 * r2

\* the open interiors of a and b overlap on both axes
InteriorsOverlap(a, b) ==
    /\ OpenOverlap(a.x, a.x + a.w, b.x, b.x + b.w)
    /\ OpenOverlap(a.y, a.y + a.h, b.y, b.y + b.h)

\* a and b share a boundary line
Touching(a, b) ==
    \/ a.x + a.w = b.x
    \/ b.x + b.w = a.x
    \/ a.y + a.h = b.y
    \/ b.y + b.h = a.y

NonNegative(r) == r.w >= 0 /\ r.h >= 0

Positive(r) == r.w > 0 /\ r.h > 0

\* what C14 says of touching rectangles and of the two examples
EdgesAndExamples ==
    /\ (NonNegative(rectA) /\ NonNegative(rectB) /\ Touching(rectA, rectB)) => op.ret = JSFalse
    /\ (rectA = ExampleA /\ rectB = ExampleTouching) => op.ret = JSFalse
    /\ (rectA = ExampleA /\ rectB = ExampleOverlapping) => op.ret = JSTrue

\* C14 as stated: for rectangles of non-negative width and height the result is
\* true exactly when the open interiors overlap on both axes; touching
\* rectangles do not intersect; the two examples.
C14_Original ==
    op.name = "AABBIntersect" =>
        /\ (NonNegative(rectA) /\ NonNegative(rectB)) =>
                (op.ret = JSTrue <=> InteriorsOverlap(rectA, rectB))
        /\ EdgesAndExamples

\* C14 as amended: for rectangles of strictly positive width and height the
\* result is true exactly when the open interiors overlap on both axes;
\* rectangles of non-negative size that share a boundary line do not intersect;
\* the two examples.
C14_OpenInteriors ==
    op.name = "AABBIntersect" =>
        /\ (Positive(rectA) /\ Positive(rectB)) =>
                (op.ret = JSTrue <=> InteriorsOverlap(rectA, rectB))
        /\ EdgesAndExamples

\* two rectangles of positive size that share an edge and overlap on the other axis were tested
C14_Witness ==
    /\ op.name = "AABBIntersect"
    /\ op.ret = JSFalse
    /\ Positive(rectA)
    /\ Positive(rectB)
    /\ rectA.x + rectA.w = rectB.x
    /\ rectA.y = rectB.y

\* C15: drawSprite(sprite, x, y) and sprite.draw(ctx, x, y) call drawImage with
\* the source rectangle (sx, sy, w, h) the constructor stored, the destination
\* (x, y) and the destination size (w, h). (The statement of the claim; both
\* read sprite.w and sprite.h, which the constructor never sets.)
C15_DrawUsesStoredSize ==
    op.name \in {"drawSprite", "draw"} =>
        drawImage = <<sprite["img"], sprite["x"], sprite["y"], sprite["width"], sprite["height"],
                      Num(dest[1]), Num(dest[2]), sprite["width"], sprite["height"]>>

\* C16 as stated: from every reachable state, key-down, key-up, key-down for k
\* delivered back to back leave down and pressed as the single first key-down
\* left them.
C16_Original == burstLen = 3 => <<down, pressed>> = afterFirst

\* C16 as amended: from every reachable state in which k is not in pressed,
\* key-down, key-up, key-down for k delivered back to back leave down and
\* pressed as a single key-down for k leaves them. From a state in which k is in
\* pressed they leave the same down map, but k is no longer in pressed.
C16_Coalescing ==
    burstLen = 3 =>
        /\ down = afterFirst[1]
        /\ burstKey \notin DOMAIN burstStart[2] => pressed = afterFirst[2]
        /\ burstKey \in DOMAIN burstStart[2] => pressed = Delete(afterFirst[2], burstKey)

\* down, up, down was delivered for a key that was held and not yet reported,
\* while the other key was in pressed
C16_Witness ==
    /\ burstLen = 3
    /\ burstKey \in DOMAIN burstStart[1]
    /\ burstKey \notin DOMAIN burstStart[2]
    /\ DOMAIN pressed # {}
    /\ <<down, pressed>> = afterFirst

\* C18: between two key-up events for k (and before the first) at most one
\* isPressed(k) call returns true, however many key-down events for k are
\* delivered; so the number of true returns never exceeds 1 plus the number of
\* key-up events for k.
C18_AutoRepeat ==
    \A k \in Keys :
        /\ trues[k] <= truesAtUp[k] + 1
        /\ trues[k] <= 1 + ups[k]
        /\ (op.name = "isPressed" /\ op.code = k /\ k \in DOMAIN down /\ polls[k] >= 2)
                => op.ret = JSFalse

\* isPressed(k) returned true, a second key-down for k followed, and the next poll said false
C18_Witness ==
    \E k \in Keys :
        /\ op = [name |-> "isPressed", code |-> k, ret |-> JSFalse]
        /\ downs[k] = 2
        /\ polls[k] = 1
        /\ trues[k] = truesAtUp[k] + 1

\* C19: after a key-up for k that ended a hold during which isPressed(k) was
\* never called, and until the next key-down for k, no isPressed(k) call has
\* returned true since the hold began, and k is in neither map, as for a key
\* never pressed.
C19_LostTap ==
    \A k \in Keys :
        lostTap[k] =>
            /\ trues[k] = truesAtDown[k]
            /\ (op.name = "isPressed" /\ op.code = k) => op.ret = JSFalse
            /\ Get(down, k) = Get(EmptyObject, k)
            /\ Get(pressed, k) = Get(EmptyObject, k)

\* a key was tapped unobserved and polled twice afterwards
C19_Witness ==
    \E k \in Keys :
        /\ lostTap[k]
        /\ op = [name |-> "isPressed", code |-> k, ret |-> JSFalse]
        /\ polls[k] = 2
        /\ trues[k] = 0

\* C17: once Animate has been called the driver never returns to the state
\* before the call, a tick is always executing or requested, a pending request
\* goes away only by being delivered (there is no cancel), and under a fair host
\* the callback keeps being invoked: every count of invocations up to MaxTicks
\* is reached.
C17_StaysRunning ==
    /\ [][pc # "init" => pc' # "init"]_vars
    /\ [](pc # "init" => (pc \in {"loop", "raf"} \/ pendingFrames > 0))
    /\ [][pendingFrames' < pendingFrames =>
            (pc = "wait" /\ pc' = "loop" /\ pendingFrames' = pendingFrames - 1)]_vars
    /\ (pc # "init") ~> (counter = MaxTicks /\ pc = "wait" /\ pendingFrames = 1)

\* the driver has run MaxTicks ticks and the next frame is requested
C17_Witness ==
    /\ counter = MaxTicks
    /\ pc = "wait"
    /\ pendingFrames = 1
    /\ op.name = "raf"

====
